---- MODULE Spec2Model ----
\* A model of the ChopChopGo worker task (src/tasks.py): configuration
\* resolution, the per-file subprocess loop and the packaging of results.
\*
\* A Python str is modelled as a sequence of one-character strings, so that
\* strip(), lower(), the "in" substring test and pathlib's parsing are
\* computed rather than assumed.  A Python value that may be None, a str or
\* a list is a record tagged by "kind".
EXTENDS Integers, Sequences, FiniteSets, TLC

VARIABLES
    DEFAULT_TARGET,   \* module constant read from CHOPCHOPGO_DEFAULT_TARGET
    dirs,             \* directories on disk; their ancestors exist with them
    cwd,              \* the working directory of the worker process
    locked,           \* directories the worker process may not search
    task_config,      \* the task_config argument of analyze_logs
    files,            \* what get_input_files returned
    pc,               \* position of analyze_logs
    index,            \* loop index of enumerate(files, start=1)
    output_format,    \* local variables of analyze_logs
    target,
    rules_path,
    command,
    output_files,
    created,          \* artifacts allocated through create_output_file
    written,          \* write_text calls that stored their data
    runs,             \* invocations of the binary that ran to their exit
    events,           \* task-progress events sent
    error,            \* the exception raised, if any
    result            \* the TaskResult returned, if any

vars == <<DEFAULT_TARGET, dirs, cwd, locked, task_config, files, pc, index, output_format,
          target, rules_path, command, output_files, created, written, runs,
          events, error, result>>

-----------------------------------------------------------------------------
\* Bounds of the model.

\* Longest list get_input_files returns.
MaxFiles == 3
\* Longest run of whitespace put before and after a configured value.
MaxPad == 1

-----------------------------------------------------------------------------
\* Python values.

None == [kind |-> "none"]
\* A key that the dict does not hold.
Absent == [kind |-> "absent"]
Str(s) == [kind |-> "str", s |-> s]
List(items) == [kind |-> "list", items |-> items]

\* An exception, and a call that raised one instead of returning a value.
TypeError(msg) == [kind |-> "TypeError", msg |-> msg]
OSError(msg) == [kind |-> "OSError", msg |-> msg]
PermissionError(msg) == [kind |-> "PermissionError", msg |-> msg]
ValueError(msg) == [kind |-> "ValueError", msg |-> msg]
UnicodeDecodeError(msg) == [kind |-> "UnicodeDecodeError", msg |-> msg]
Raise(err) == [kind |-> "raise", error |-> err]

\* bool(value) as Python's "if value:" / "value or ..." take it.
Truthy(value) ==
    CASE value.kind = "str" -> Len(value.s) > 0
      [] value.kind = "list" -> Len(value.items) > 0
      [] OTHER -> FALSE

\* dict.get(key): None when the key is missing.
DictGet(d, key) == IF d[key] = Absent THEN None ELSE d[key]

EmptyConfig ==
    [output_format |-> Absent, target |-> Absent,
     rules_path |-> Absent, rule_bundle |-> Absent]

\* (task_config or {})
OrEmpty(cfg) == IF cfg = None THEN EmptyConfig ELSE cfg

-----------------------------------------------------------------------------
\* Python str operations.

\* The characters of the model are those of Latin-1, U+0001 to U+00FF, and
\* the null character U+0000, which is written as the element Nul.
Nul == "\\0"

\* The characters str.strip() removes (str.isspace()): tab, line feed,
\* vertical tab, form feed, carriage return, the separators U+001C to
\* U+001F, the space, next line U+0085 and the no-break space U+00A0.
Whitespace ==
    {"\t", "\n", "", "\f", "\r", "", "", "", "", " ", "", " "}

\* The characters str.lower() changes, and what it changes them to.
UpperChars ==
    <<"A", "B", "C", "D", "E", "F", "G", "H", "I", "J", "K", "L", "M", "N",
      "O", "P", "Q", "R", "S", "T", "U", "V", "W", "X", "Y", "Z", "À", "Á",
      "Â", "Ã", "Ä", "Å", "Æ", "Ç", "È", "É", "Ê", "Ë", "Ì", "Í", "Î", "Ï",
      "Ð", "Ñ", "Ò", "Ó", "Ô", "Õ", "Ö", "Ø", "Ù", "Ú", "Û", "Ü", "Ý", "Þ">>
LowerChars ==
    <<"a", "b", "c", "d", "e", "f", "g", "h", "i", "j", "k", "l", "m", "n",
      "o", "p", "q", "r", "s", "t", "u", "v", "w", "x", "y", "z", "à", "á",
      "â", "ã", "ä", "å", "æ", "ç", "è", "é", "ê", "ë", "ì", "í", "î", "ï",
      "ð", "ñ", "ò", "ó", "ô", "õ", "ö", "ø", "ù", "ú", "û", "ü", "ý", "þ">>

LowerChar(c) ==
    IF \E i \in 1..Len(UpperChars) : UpperChars[i] = c
    THEN LowerChars[CHOOSE i \in 1..Len(UpperChars) : UpperChars[i] = c]
    ELSE c

\* str.lower()
Lower(s) == [i \in 1..Len(s) |-> LowerChar(s[i])]

RECURSIVE LStrip(_)
LStrip(s) ==
    IF Len(s) > 0 /\ s[1] \in Whitespace THEN LStrip(Tail(s)) ELSE s

RECURSIVE RStrip(_)
RStrip(s) ==
    IF Len(s) > 0 /\ s[Len(s)] \in Whitespace
    THEN RStrip(SubSeq(s, 1, Len(s) - 1))
    ELSE s

\* str.strip()
Strip(s) == RStrip(LStrip(s))

\* sub in s
Contains(s, sub) ==
    \E i \in 0..(Len(s) - Len(sub)) : SubSeq(s, i + 1, i + Len(sub)) = sub

\* s.rfind(c), as a 1-based position; 0 when c does not occur.
RFind(s, c) ==
    IF \E i \in 1..Len(s) : s[i] = c
    THEN CHOOSE i \in 1..Len(s) :
             s[i] = c /\ \A j \in (i + 1)..Len(s) : s[j] # c
    ELSE 0

-----------------------------------------------------------------------------
\* str() and repr().

\* The characters repr() writes as an escape, each with its escape.
ReprEscapes ==
    <<<<Nul, <<"\\", "x", "0", "0">>>>,
      <<"", <<"\\", "x", "0", "1">>>>, <<"", <<"\\", "x", "0", "2">>>>,
      <<"", <<"\\", "x", "0", "3">>>>, <<"", <<"\\", "x", "0", "4">>>>,
      <<"", <<"\\", "x", "0", "5">>>>, <<"", <<"\\", "x", "0", "6">>>>,
      <<"", <<"\\", "x", "0", "7">>>>, <<"", <<"\\", "x", "0", "8">>>>,
      <<"\t", <<"\\", "t">>>>, <<"\n", <<"\\", "n">>>>,
      <<"", <<"\\", "x", "0", "b">>>>, <<"\f", <<"\\", "x", "0", "c">>>>,
      <<"\r", <<"\\", "r">>>>, <<"", <<"\\", "x", "0", "e">>>>,
      <<"", <<"\\", "x", "0", "f">>>>, <<"", <<"\\", "x", "1", "0">>>>,
      <<"", <<"\\", "x", "1", "1">>>>, <<"", <<"\\", "x", "1", "2">>>>,
      <<"", <<"\\", "x", "1", "3">>>>, <<"", <<"\\", "x", "1", "4">>>>,
      <<"", <<"\\", "x", "1", "5">>>>, <<"", <<"\\", "x", "1", "6">>>>,
      <<"", <<"\\", "x", "1", "7">>>>, <<"", <<"\\", "x", "1", "8">>>>,
      <<"", <<"\\", "x", "1", "9">>>>, <<"", <<"\\", "x", "1", "a">>>>,
      <<"", <<"\\", "x", "1", "b">>>>, <<"", <<"\\", "x", "1", "c">>>>,
      <<"", <<"\\", "x", "1", "d">>>>, <<"", <<"\\", "x", "1", "e">>>>,
      <<"", <<"\\", "x", "1", "f">>>>, <<"", <<"\\", "x", "7", "f">>>>,
      <<"", <<"\\", "x", "8", "0">>>>, <<"", <<"\\", "x", "8", "1">>>>,
      <<"", <<"\\", "x", "8", "2">>>>, <<"", <<"\\", "x", "8", "3">>>>,
      <<"", <<"\\", "x", "8", "4">>>>, <<"", <<"\\", "x", "8", "5">>>>,
      <<"", <<"\\", "x", "8", "6">>>>, <<"", <<"\\", "x", "8", "7">>>>,
      <<"", <<"\\", "x", "8", "8">>>>, <<"", <<"\\", "x", "8", "9">>>>,
      <<"", <<"\\", "x", "8", "a">>>>, <<"", <<"\\", "x", "8", "b">>>>,
      <<"", <<"\\", "x", "8", "c">>>>, <<"", <<"\\", "x", "8", "d">>>>,
      <<"", <<"\\", "x", "8", "e">>>>, <<"", <<"\\", "x", "8", "f">>>>,
      <<"", <<"\\", "x", "9", "0">>>>, <<"", <<"\\", "x", "9", "1">>>>,
      <<"", <<"\\", "x", "9", "2">>>>, <<"", <<"\\", "x", "9", "3">>>>,
      <<"", <<"\\", "x", "9", "4">>>>, <<"", <<"\\", "x", "9", "5">>>>,
      <<"", <<"\\", "x", "9", "6">>>>, <<"", <<"\\", "x", "9", "7">>>>,
      <<"", <<"\\", "x", "9", "8">>>>, <<"", <<"\\", "x", "9", "9">>>>,
      <<"", <<"\\", "x", "9", "a">>>>, <<"", <<"\\", "x", "9", "b">>>>,
      <<"", <<"\\", "x", "9", "c">>>>, <<"", <<"\\", "x", "9", "d">>>>,
      <<"", <<"\\", "x", "9", "e">>>>, <<"", <<"\\", "x", "9", "f">>>>,
      <<" ", <<"\\", "x", "a", "0">>>>, <<"­", <<"\\", "x", "a", "d">>>>>>

\* One character of a str inside the quotes repr() chose.
ReprChar(c, quote) ==
    IF c = "\\" THEN <<"\\", "\\">>
    ELSE IF c = quote THEN <<"\\", c>>
    ELSE IF \E i \in 1..Len(ReprEscapes) : ReprEscapes[i][1] = c
         THEN ReprEscapes[CHOOSE i \in 1..Len(ReprEscapes) :
                              ReprEscapes[i][1] = c][2]
         ELSE <<c>>

RECURSIVE ReprChars(_, _)
ReprChars(s, quote) ==
    IF Len(s) = 0 THEN <<>>
    ELSE ReprChar(s[1], quote) \o ReprChars(Tail(s), quote)

\* repr() of a str: double quotes when the text holds a single quote and no
\* double quote, single quotes otherwise.
ReprStr(s) ==
    LET quote == IF /\ \E i \in 1..Len(s) : s[i] = "'"
                    /\ \A i \in 1..Len(s) : s[i] # "\""
                 THEN "\"" ELSE "'"
    IN <<quote>> \o ReprChars(s, quote) \o <<quote>>

\* repr(value), and ", ".join of the repr of the items of a list.
RECURSIVE PyRepr(_), ReprItems(_)
PyRepr(value) ==
    CASE value.kind = "str" -> ReprStr(value.s)
      [] value.kind = "list" -> <<"[">> \o ReprItems(value.items) \o <<"]">>
      [] OTHER -> <<"N", "o", "n", "e">>
ReprItems(items) ==
    IF Len(items) = 0 THEN <<>>
    ELSE IF Len(items) = 1 THEN PyRepr(items[1])
    ELSE PyRepr(items[1]) \o <<",", " ">> \o ReprItems(Tail(items))

\* str(value): the text itself for a str, the repr for None and for a list.
PyStr(value) ==
    IF value.kind = "str" THEN value.s ELSE PyRepr(value)

-----------------------------------------------------------------------------
\* pathlib.Path on a POSIX system.

\* s.split("/")
RECURSIVE SplitSlash(_)
SplitSlash(s) ==
    IF \E i \in 1..Len(s) : s[i] = "/"
    THEN LET i == CHOOSE k \in 1..Len(s) :
                      s[k] = "/" /\ \A j \in 1..(k - 1) : s[j] # "/"
         IN <<SubSeq(s, 1, i - 1)>> \o SplitSlash(SubSeq(s, i + 1, Len(s)))
    ELSE <<s>>

\* The segments pathlib keeps: empty and "." segments are dropped.
PathParts(s) ==
    SelectSeq(SplitSlash(s), LAMBDA seg : seg # <<>> /\ seg # <<".">>)

\* The root: "/" for an absolute path, "//" for exactly two leading slashes.
PathRoot(s) ==
    IF Len(s) = 0 \/ s[1] # "/" THEN <<>>
    ELSE IF Len(s) >= 2 /\ s[2] = "/" /\ (Len(s) = 2 \/ s[3] # "/")
         THEN <<"/", "/">>
         ELSE <<"/">>

RECURSIVE JoinSlash(_)
JoinSlash(parts) ==
    IF Len(parts) = 0 THEN <<>>
    ELSE IF Len(parts) = 1 THEN parts[1]
    ELSE parts[1] \o <<"/">> \o JoinSlash(Tail(parts))

\* str(Path(s))
PathStr(s) ==
    LET text == PathRoot(s) \o JoinSlash(PathParts(s))
    IN IF text = <<>> THEN <<".">> ELSE text

\* Path(a) / b
PathJoin(a, b) ==
    IF Len(b) > 0 /\ b[1] = "/" THEN PathStr(b)
    ELSE LET text == PathRoot(a) \o JoinSlash(PathParts(a) \o PathParts(b))
         IN IF text = <<>> THEN <<".">> ELSE text

\* Path(s).name
PathName(s) ==
    LET parts == PathParts(s)
    IN IF Len(parts) = 0 THEN <<>> ELSE parts[Len(parts)]

\* Path(s).stem
PathStem(s) ==
    LET name == PathName(s)
        i == RFind(name, ".")
    IN IF 1 < i /\ i < Len(name) THEN SubSeq(name, 1, i - 1) ELSE name

IsPrefix(p, full) == Len(p) <= Len(full) /\ SubSeq(full, 1, Len(p)) = p

\* The directories of the file system, as segments below the root: the root,
\* and the working directory and every directory of dirs with their
\* ancestors.
DirExists(segs) ==
    \E d \in dirs \cup {cwd} : IsPrefix(segs, PathParts(d))

\* The longest file name and the longest path name, in bytes, the system
\* looks up (NAME_MAX, and PATH_MAX less the terminator).
NameMax == 255
PathMax == 4095

\* The characters UTF-8 writes with two bytes.
TwoByteChars ==
    {"", "", "", "", "", "", "", "", "", "", "", "", "", "",
     "", "", "", "", "", "", "", "", "", "", "", "", "", "",
     "", "", "", "", " ", "¡", "¢", "£", "¤", "¥", "¦", "§", "¨", "©",
     "ª", "«", "¬", "­", "®", "¯", "°", "±", "²", "³", "´", "µ", "¶", "·",
     "¸", "¹", "º", "»", "¼", "½", "¾", "¿", "À", "Á", "Â", "Ã", "Ä", "Å",
     "Æ", "Ç", "È", "É", "Ê", "Ë", "Ì", "Í", "Î", "Ï", "Ð", "Ñ", "Ò", "Ó",
     "Ô", "Õ", "Ö", "×", "Ø", "Ù", "Ú", "Û", "Ü", "Ý", "Þ", "ß", "à", "á",
     "â", "ã", "ä", "å", "æ", "ç", "è", "é", "ê", "ë", "ì", "í", "î", "ï",
     "ð", "ñ", "ò", "ó", "ô", "õ", "ö", "÷", "ø", "ù", "ú", "û", "ü", "ý",
     "þ", "ÿ"}

\* len(s.encode())
ByteLen(s) ==
    Len(s) + Cardinality({i \in 1..Len(s) : s[i] \in TwoByteChars})

\* The process may look names up in the directory made of these segments.
Searchable(no_search, segs) == \A d \in no_search : PathParts(d) # segs

\* The file system following the segments of a name one by one from the
\* directory "at", for a process that may not search the directories of
\* no_search.  Every segment, ".." included, is looked up in the directory
\* reached, which fails with EACCES when that directory may not be
\* searched; "." stays there and ".." leads to the parent (the root is its
\* own parent); any other segment fails with ENAMETOOLONG when it is longer
\* than a file name may be and with ENOENT when it names no directory.
RECURSIVE Walk(_, _, _)
Walk(no_search, at, rest) ==
    IF Len(rest) = 0 THEN "dir"
    ELSE IF ~Searchable(no_search, at) THEN "EACCES"
    ELSE IF rest[1] = <<".">> THEN Walk(no_search, at, Tail(rest))
    ELSE IF rest[1] = <<".", ".">>
         THEN Walk(no_search, SubSeq(at, 1, Len(at) - 1), Tail(rest))
         ELSE IF ByteLen(rest[1]) > NameMax THEN "ENAMETOOLONG"
         ELSE IF ~DirExists(Append(at, rest[1])) THEN "ENOENT"
         ELSE Walk(no_search, Append(at, rest[1]), Tail(rest))

\* os.stat(str(Path(s))) for a process that may not search the directories
\* of no_search: a name holding a null character is refused with ValueError
\* before the system is asked, a name longer than a path may be fails with
\* ENAMETOOLONG, and a relative name starts at the working directory; the
\* name without segments is "." there.
StatAs(no_search, s) ==
    IF \E i \in 1..Len(s) : s[i] = Nul THEN "ValueError"
    ELSE IF ByteLen(PathStr(s)) > PathMax THEN "ENAMETOOLONG"
    ELSE IF PathRoot(s) # <<>> THEN Walk(no_search, <<>>, PathParts(s))
    ELSE Walk(no_search, PathParts(cwd),
              IF PathParts(s) = <<>> THEN <<<<".">>>> ELSE PathParts(s))

\* os.stat(str(Path(s))) in the worker process.
Stat(s) == StatAs(locked, s)

\* Path(s).is_dir() returns True.
IsDir(s) == Stat(s) = "dir"

\* Path(s).is_dir() raises: of the errors of stat it swallows ValueError and
\* those that say there is no such file (Python before 3.14), so a name that
\* is too long raises OSError and a directory that may not be searched
\* raises PermissionError.
IsDirRaises(s) == Stat(s) \in {"ENAMETOOLONG", "EACCES"}

-----------------------------------------------------------------------------
\* Module constants of tasks.py.

SUPPORTED_FORMATS == {<<"j", "s", "o", "n">>, <<"c", "s", "v">>}

SUPPORTED_TARGETS == <<(<<"s", "y", "s", "l", "o", "g">>), (<<"a", "u", "d", "i", "t", "d">>)>>

DEFAULT_RULES_ROOT ==
    <<"/", "o", "p", "t", "/", "c", "h", "o", "p", "c", "h", "o", "p", "g", "o",
      "/", "r", "u", "l", "e", "s">>

BINARY_PATH == <<"c", "h", "o", "p", "c", "h", "o", "p", "g", "o">>

Linux == <<"l", "i", "n", "u", "x">>

TARGET_RULE_SUBPATHS ==
    (<<"s", "y", "s", "l", "o", "g">> :>
        PathJoin(Linux, <<"b", "u", "i", "l", "t", "i", "n">>))
    @@ (<<"a", "u", "d", "i", "t", "d">> :>
        PathJoin(Linux, <<"a", "u", "d", "i", "t", "d">>))

RULE_BUNDLE_SUBPATHS ==
    (<<"l", "i", "n", "u", "x", "/", "b", "u", "i", "l", "t", "i", "n">> :>
        PathJoin(Linux, <<"b", "u", "i", "l", "t", "i", "n">>))
    @@ (<<"l", "i", "n", "u", "x", "/", "a", "u", "d", "i", "t", "d">> :>
        PathJoin(Linux, <<"a", "u", "d", "i", "t", "d">>))
    @@ (<<"l", "i", "n", "u", "x", "/", "p", "r", "o", "c", "e", "s", "s", "_",
          "c", "r", "e", "a", "t", "i", "o", "n">> :>
        PathJoin(Linux, <<"p", "r", "o", "c", "e", "s", "s", "_",
                          "c", "r", "e", "a", "t", "i", "o", "n">>))
    @@ (<<"l", "i", "n", "u", "x", "/", "f", "i", "l", "e", "_",
          "e", "v", "e", "n", "t">> :>
        PathJoin(Linux, <<"f", "i", "l", "e", "_", "e", "v", "e", "n", "t">>))
    @@ (<<"l", "i", "n", "u", "x", "/", "n", "e", "t", "w", "o", "r", "k", "_",
          "c", "o", "n", "n", "e", "c", "t", "i", "o", "n">> :>
        PathJoin(Linux, <<"n", "e", "t", "w", "o", "r", "k", "_",
                          "c", "o", "n", "n", "e", "c", "t", "i", "o", "n">>))

\* The marker looked for in the error text of a failed invocation.
TimestampMarker ==
    <<"F", "a", "i", "l", "e", "d", " ", "t", "o", " ", "m", "a", "t", "c", "h",
      " ", "t", "i", "m", "e", "s", "t", "a", "m", "p">>

\* The suffix of an output artifact's display name.
OutputSuffix == <<"_", "c", "h", "o", "p", "c", "h", "o", "p", "g", "o">>

\* The prefix of an output artifact's data type.
DataTypePrefix ==
    <<"o", "p", "e", "n", "r", "e", "l", "i", "k", ":",
      "c", "h", "o", "p", "c", "h", "o", "p", "g", "o", ":">>

-----------------------------------------------------------------------------
\* Configuration resolution.

_first_value(value) ==
    IF value.kind = "list"
    THEN IF Len(value.items) > 0 THEN value.items[1] ELSE None
    ELSE value

\* _determine_output_format without the lower-casing of the value.
determine_output_format_no_lower(cfg) ==
    LET raw_value == _first_value(DictGet(OrEmpty(cfg), "output_format"))
    IN IF raw_value = None THEN <<"j", "s", "o", "n">>
       ELSE LET configured == Strip(PyStr(raw_value))
            IN IF configured \in SUPPORTED_FORMATS
               THEN configured
               ELSE <<"j", "s", "o", "n">>

_determine_output_format(cfg) ==
    LET raw_value == _first_value(DictGet(OrEmpty(cfg), "output_format"))
    IN IF raw_value = None THEN <<"j", "s", "o", "n">>
       ELSE LET configured == Lower(Strip(PyStr(raw_value)))
            IN IF configured \in SUPPORTED_FORMATS
               THEN configured
               ELSE <<"j", "s", "o", "n">>

InSupportedTargets(s) ==
    \E i \in 1..Len(SUPPORTED_TARGETS) : SUPPORTED_TARGETS[i] = s

\* _determine_target without the membership test.
determine_target_unchecked(cfg) ==
    LET raw_value == _first_value(DictGet(OrEmpty(cfg), "target"))
    IN IF raw_value = None THEN DEFAULT_TARGET
       ELSE LET target_candidate == Strip(PyStr(raw_value))
            IN IF target_candidate = <<>> THEN DEFAULT_TARGET
               ELSE target_candidate

_determine_target(cfg) ==
    LET raw_value == _first_value(DictGet(OrEmpty(cfg), "target"))
    IN IF raw_value = None THEN DEFAULT_TARGET
       ELSE LET target_candidate == Strip(PyStr(raw_value))
            IN IF target_candidate = <<>> THEN DEFAULT_TARGET
               ELSE IF ~InSupportedTargets(target_candidate)
                    THEN DEFAULT_TARGET
                    ELSE target_candidate

FileNameTooLong == Raise(OSError("file_name_too_long"))
PermissionDenied == Raise(PermissionError("permission_denied"))

\* str(candidate) if candidate.is_dir() else None
DirOrNone(candidate) ==
    IF IsDirRaises(candidate)
    THEN IF Stat(candidate) = "EACCES" THEN PermissionDenied
         ELSE FileNameTooLong
    ELSE IF IsDir(candidate) THEN Str(PathStr(candidate))
    ELSE None

\* The final fallback of _resolve_rules_path: the target's default directory,
\* None when it does not exist; is_dir() may raise.
TargetDefaultRules(tgt) ==
    LET default_subpath ==
            IF tgt \in DOMAIN TARGET_RULE_SUBPATHS
            THEN TARGET_RULE_SUBPATHS[tgt]
            ELSE PathJoin(Linux, <<"b", "u", "i", "l", "t", "i", "n">>)
    IN DirOrNone(PathJoin(DEFAULT_RULES_ROOT, default_subpath))

\* The directory of the chosen bundle: None when the key is not one of the
\* table or its directory does not exist; the table lookup raises TypeError
\* for a key that is a list, and is_dir() may raise.
BundleRules(bundle_key) ==
    IF Truthy(bundle_key) /\ bundle_key.kind # "str"
    THEN Raise(TypeError("unhashable_type"))
    ELSE IF Truthy(bundle_key) /\ bundle_key.s \in DOMAIN RULE_BUNDLE_SUBPATHS
         THEN DirOrNone(PathJoin(DEFAULT_RULES_ROOT,
                                 RULE_BUNDLE_SUBPATHS[bundle_key.s]))
         ELSE None

\* The rules directory, None when there is none.  Path() of an override that
\* is not a text and the table lookup of a bundle key that is a list raise
\* TypeError; is_dir() raises OSError for a name that is too long and
\* PermissionError for a directory that may not be searched, at the
\* override, at the bundle's directory and at the target's default alike.
_resolve_rules_path(tgt, rules_override, bundle_choice) ==
    IF Truthy(rules_override)
    THEN IF rules_override.kind # "str"
         THEN Raise(TypeError("path_argument"))
         ELSE DirOrNone(rules_override.s)
    ELSE IF BundleRules(_first_value(bundle_choice)) # None
         THEN BundleRules(_first_value(bundle_choice))
         ELSE TargetDefaultRules(tgt)

-----------------------------------------------------------------------------
\* analyze_logs.

RuntimeError(msg) == [kind |-> "RuntimeError", msg |-> msg]

\* "ChopChopGo could not parse the input log format. ... (currently '<tgt>')"
CouldNotParse(tgt) ==
    [kind |-> "RuntimeError", msg |-> "could_not_parse", target |-> tgt]

\* "ChopChopGo exited with code <code> while processing <name>"
ExitedWithCode(code, name) ==
    [kind |-> "RuntimeError", msg |-> "exited_with_code",
     code |-> code, display_name |-> name]

\* display_name = input_file.get("display_name") or Path(file_path).name
\* Path() raises TypeError for a path that is not a text.
DisplayName(input_file) ==
    IF Truthy(DictGet(input_file, "display_name"))
    THEN DictGet(input_file, "display_name")
    ELSE IF DictGet(input_file, "path").kind = "str"
         THEN Str(PathName(DictGet(input_file, "path").s))
         ELSE Raise(TypeError("path_argument"))

\* Command with the target and the rules path in each other's place.
CommandSwapped(tgt, rules, file_path, fmt) ==
    <<BINARY_PATH,
      <<"-", "t", "a", "r", "g", "e", "t">>, rules,
      <<"-", "r", "u", "l", "e", "s">>, tgt,
      <<"-", "f", "i", "l", "e">>, file_path,
      <<"-", "o", "u", "t">>, fmt>>

\* The argument vector of one invocation.
Command(tgt, rules, file_path, fmt) ==
    <<BINARY_PATH,
      <<"-", "t", "a", "r", "g", "e", "t">>, tgt,
      <<"-", "r", "u", "l", "e", "s">>, rules,
      <<"-", "f", "i", "l", "e">>, file_path,
      <<"-", "o", "u", "t">>, fmt>>

\* " ".join(words)
RECURSIVE JoinSpace(_)
JoinSpace(words) ==
    IF Len(words) = 0 THEN <<>>
    ELSE IF Len(words) = 1 THEN words[1]
    ELSE words[1] \o <<" ">> \o JoinSpace(Tail(words))

\* ClassifyFailure looking for the marker in standard error alone.
ClassifyFailureStderrOnly(proc, tgt, display_name) ==
    IF Contains(proc.stderr, TimestampMarker)
    THEN CouldNotParse(tgt)
    ELSE ExitedWithCode(proc.returncode, display_name)

\* The exception a non-zero exit raises.
ClassifyFailure(proc, tgt, display_name) ==
    LET error_output ==
            IF Len(proc.stderr) > 0 THEN proc.stderr ELSE proc.stdout
    IN IF Contains(error_output, TimestampMarker)
       THEN CouldNotParse(tgt)
       ELSE ExitedWithCode(proc.returncode, display_name)

\* A byte of the output of the binary that no UTF-8 text holds (0xFF); the
\* other bytes of an output are written as the characters they encode.
InvalidByte == "\\xff"

\* data.decode("utf-8") returns a text.
DecodesAsUtf8(data) == \A i \in 1..Len(data) : data[i] # InvalidByte

\* The text subprocess.run(text=True) makes of decoded output: "\r\n" and
\* "\r" become "\n".
RECURSIVE TranslateNewlines(_)
TranslateNewlines(text) ==
    IF Len(text) = 0 THEN <<>>
    ELSE IF text[1] = "\r"
         THEN <<"\n">> \o TranslateNewlines(
                  IF Len(text) >= 2 /\ text[2] = "\n"
                  THEN SubSeq(text, 3, Len(text))
                  ELSE Tail(text))
         ELSE <<text[1]>> \o TranslateNewlines(Tail(text))

\* files = get_input_files(...); if not files: raise
GetInputFiles(lists) ==
    /\ pc = "start"
    /\ \E fs \in lists :
        /\ files' = fs
        /\ IF Len(fs) = 0
           THEN /\ pc' = "raised"
                /\ error' = RuntimeError("no_compatible_input_files")
           ELSE /\ pc' = "resolve"
                /\ error' = error
    /\ UNCHANGED <<DEFAULT_TARGET, dirs, cwd, locked, task_config, index, output_format,
                   target, rules_path, command, output_files, created,
                   written, runs, events, result>>

\* The three resolutions, and the check of rules_path.  An exception out of
\* _resolve_rules_path (TypeError, OSError, PermissionError) is not caught.
ResolveConfig ==
    /\ pc = "resolve"
    /\ output_format' = Str(_determine_output_format(task_config))
    /\ target' = Str(_determine_target(task_config))
    /\ LET resolved ==
               _resolve_rules_path(_determine_target(task_config),
                                   DictGet(OrEmpty(task_config), "rules_path"),
                                   DictGet(OrEmpty(task_config), "rule_bundle"))
       IN IF resolved.kind = "raise"
          THEN /\ pc' = "raised"
               /\ error' = resolved.error
               /\ UNCHANGED <<rules_path, index, output_files>>
          ELSE /\ rules_path' = resolved
               /\ IF ~Truthy(resolved)
                  THEN /\ pc' = "raised"
                       /\ error' = RuntimeError("unable_to_locate_rules_directory")
                       /\ UNCHANGED <<index, output_files>>
                  ELSE /\ pc' = "loop"
                       /\ index' = 1
                       /\ output_files' = <<>>
                       /\ error' = error
    /\ UNCHANGED <<DEFAULT_TARGET, dirs, cwd, locked, task_config, files, command, created,
                   written, runs, events, result>>

\* SkipEntry leaving the loop (break) instead of continuing.
SkipEntryBreak ==
    /\ pc = "loop"
    /\ index <= Len(files)
    /\ ~Truthy(DictGet(files[index], "path"))
    /\ index' = Len(files) + 1
    /\ UNCHANGED <<DEFAULT_TARGET, dirs, cwd, locked, task_config, files, pc,
                   output_format, target, rules_path, command, output_files,
                   created, written, runs, events, error, result>>

\* One iteration of the loop for an entry without a path: continue.
SkipEntry ==
    /\ pc = "loop"
    /\ index <= Len(files)
    /\ ~Truthy(DictGet(files[index], "path"))
    /\ index' = index + 1
    /\ UNCHANGED <<DEFAULT_TARGET, dirs, cwd, locked, task_config, files, pc,
                   output_format, target, rules_path, command, output_files,
                   created, written, runs, events, error, result>>

\* One iteration of the loop for an entry with a path, up to the call of
\* subprocess.run: allocate the artifact and build the argument vector.
\* Path(display_name) raises TypeError for a display name that is not a
\* text; a path that is not a text goes into the argument vector as it is.
StartFile ==
    /\ pc = "loop"
    /\ index <= Len(files)
    /\ Truthy(DictGet(files[index], "path"))
    /\ LET input_file == files[index]
           file_path == DictGet(input_file, "path")
           display_name == DisplayName(input_file)
           output_file ==
               [id |-> Len(created) + 1,
                display_name |-> PathStem(display_name.s) \o OutputSuffix,
                extension |-> output_format.s,
                data_type |-> DataTypePrefix \o output_format.s]
       IN IF display_name.kind # "str"
          THEN /\ pc' = "raised"
               /\ error' = TypeError("path_argument")
               /\ UNCHANGED <<created, command>>
          ELSE /\ created' = Append(created, output_file)
               /\ command' = Command(target.s, rules_path.s,
                                     IF file_path.kind = "str"
                                     THEN file_path.s ELSE file_path,
                                     output_format.s)
               /\ pc' = "running"
               /\ error' = error
    /\ UNCHANGED <<DEFAULT_TARGET, dirs, cwd, locked, task_config, files, index,
                   output_format, target, rules_path, output_files, written,
                   runs, events, result>>

\* The words of the argument vector are all texts.
ArgvIsText == DictGet(files[index], "path").kind = "str"

\* The argument vector can be handed to the system: its words are texts and
\* none holds a null character.
ArgvAccepted ==
    /\ ArgvIsText
    /\ \A i \in 1..Len(DictGet(files[index], "path").s) :
           DictGet(files[index], "path").s[i] # Nul

\* subprocess.run raises before the binary is started: TypeError for an
\* argument that is not a text, ValueError for one that holds a null
\* character.
RunRejectsArgv ==
    /\ pc = "running"
    /\ ~ArgvAccepted
    /\ pc' = "raised"
    /\ error' = IF ArgvIsText THEN ValueError("embedded_null_byte")
                ELSE TypeError("subprocess_args")
    /\ UNCHANGED <<DEFAULT_TARGET, dirs, cwd, locked, task_config, files, index,
                   output_format, target, rules_path, command, output_files,
                   created, written, runs, events, result>>

\* subprocess.run raises OSError: the binary could not be started.
SpawnFails ==
    /\ pc = "running"
    /\ ArgvAccepted
    /\ pc' = "raised"
    /\ error' = OSError("subprocess_run")
    /\ UNCHANGED <<DEFAULT_TARGET, dirs, cwd, locked, task_config, files, index,
                   output_format, target, rules_path, command, output_files,
                   created, written, runs, events, result>>

\* subprocess.run raises UnicodeDecodeError: the binary ran to its exit,
\* with any status, and what it wrote on standard output or standard error
\* is not UTF-8 text.
DecodeFails(outcomes) ==
    /\ pc = "running"
    /\ ArgvAccepted
    /\ \E child \in outcomes :
        /\ ~(DecodesAsUtf8(child.stdout) /\ DecodesAsUtf8(child.stderr))
        /\ runs' = Append(runs, [entry |-> index, argv |-> command,
                                 returncode |-> child.returncode,
                                 decoded |-> FALSE,
                                 stdout |-> child.stdout,
                                 stderr |-> child.stderr])
    /\ pc' = "raised"
    /\ error' = UnicodeDecodeError("subprocess_run")
    /\ UNCHANGED <<DEFAULT_TARGET, dirs, cwd, locked, task_config, files, index,
                   output_format, target, rules_path, command, output_files,
                   created, written, events, result>>

\* ProcessFile going on to the next file after a non-zero exit.
ProcessFileContinueOnFailure(outcomes) ==
    /\ pc = "running"
    /\ ArgvAccepted
    /\ \E child \in outcomes, stored \in BOOLEAN :
        LET display_name == DisplayName(files[index]).s
            output_file == created[Len(created)]
            proc == [returncode |-> child.returncode,
                     stdout |-> TranslateNewlines(child.stdout),
                     stderr |-> TranslateNewlines(child.stderr)]
        IN /\ DecodesAsUtf8(child.stdout) /\ DecodesAsUtf8(child.stderr)
           /\ runs' = Append(runs, [entry |-> index, argv |-> command,
                                    returncode |-> proc.returncode,
                                    decoded |-> TRUE,
                                    stdout |-> proc.stdout,
                                    stderr |-> proc.stderr])
           /\ IF proc.returncode # 0
              THEN /\ pc' = "loop"
                   /\ index' = index + 1
                   /\ UNCHANGED <<written, output_files, events, error>>
              ELSE IF ~stored
              THEN /\ pc' = "raised"
                   /\ error' = OSError("write_text")
                   /\ UNCHANGED <<index, written, output_files, events>>
              ELSE /\ written' = Append(written, [id |-> output_file.id,
                                                  data |-> proc.stdout])
                   /\ output_files' = Append(output_files, output_file)
                   /\ events' = Append(events,
                                       [current |-> index,
                                        total |-> Len(files),
                                        display_name |-> display_name])
                   /\ index' = index + 1
                   /\ pc' = "loop"
                   /\ error' = error
    /\ UNCHANGED <<DEFAULT_TARGET, dirs, cwd, locked, task_config, files,
                   output_format, target, rules_path, command, created,
                   result>>

\* The rest of the iteration, once subprocess.run has returned the exit
\* status and the decoded output of the binary: raise on a non-zero exit,
\* else write the payload, append the descriptor and report progress.
\* write_text raises OSError when the payload cannot be stored.
ProcessFile(outcomes) ==
    /\ pc = "running"
    /\ ArgvAccepted
    /\ \E child \in outcomes, stored \in BOOLEAN :
        LET display_name == DisplayName(files[index]).s
            output_file == created[Len(created)]
            proc == [returncode |-> child.returncode,
                     stdout |-> TranslateNewlines(child.stdout),
                     stderr |-> TranslateNewlines(child.stderr)]
        IN /\ DecodesAsUtf8(child.stdout) /\ DecodesAsUtf8(child.stderr)
           /\ runs' = Append(runs, [entry |-> index, argv |-> command,
                                    returncode |-> proc.returncode,
                                    decoded |-> TRUE,
                                    stdout |-> proc.stdout,
                                    stderr |-> proc.stderr])
           /\ IF proc.returncode # 0
              THEN /\ pc' = "raised"
                   /\ error' = ClassifyFailure(proc, target.s, display_name)
                   /\ UNCHANGED <<index, written, output_files, events>>
              ELSE IF ~stored
              THEN /\ pc' = "raised"
                   /\ error' = OSError("write_text")
                   /\ UNCHANGED <<index, written, output_files, events>>
              ELSE /\ written' = Append(written, [id |-> output_file.id,
                                                  data |-> proc.stdout])
                   /\ output_files' = Append(output_files, output_file)
                   /\ events' = Append(events,
                                       [current |-> index,
                                        total |-> Len(files),
                                        display_name |-> display_name])
                   /\ index' = index + 1
                   /\ pc' = "loop"
                   /\ error' = error
    /\ UNCHANGED <<DEFAULT_TARGET, dirs, cwd, locked, task_config, files,
                   output_format, target, rules_path, command, created,
                   result>>

\* Finish without the check for an empty output list.
FinishUnchecked ==
    /\ pc = "loop"
    /\ index > Len(files)
    /\ pc' = "returned"
    /\ result' = [output_files |-> output_files,
                  command |-> JoinSpace(command),
                  meta |-> [output_format |-> output_format.s,
                            target |-> target.s,
                            rules_path |-> rules_path.s]]
    /\ UNCHANGED <<DEFAULT_TARGET, dirs, cwd, locked, task_config, files, index,
                   output_format, target, rules_path, command, output_files,
                   created, written, runs, events, error>>

\* After the loop: raise when nothing was produced, else return the result.
Finish ==
    /\ pc = "loop"
    /\ index > Len(files)
    /\ IF Len(output_files) = 0
       THEN /\ pc' = "raised"
            /\ error' = RuntimeError("did_not_produce_any_outputs")
            /\ result' = result
       ELSE /\ pc' = "returned"
            /\ result' = [output_files |-> output_files,
                          command |-> JoinSpace(command),
                          meta |-> [output_format |-> output_format.s,
                                    target |-> target.s,
                                    rules_path |-> rules_path.s]]
            /\ error' = error
    /\ UNCHANGED <<DEFAULT_TARGET, dirs, cwd, locked, task_config, files, index,
                   output_format, target, rules_path, command, output_files,
                   created, written, runs, events>>

-----------------------------------------------------------------------------
\* The inputs the model draws from.

Json == <<"j", "s", "o", "n">>
Csv == <<"c", "s", "v">>
Syslog == <<"s", "y", "s", "l", "o", "g">>
Auditd == <<"a", "u", "d", "i", "t", "d">>
Journald == <<"j", "o", "u", "r", "n", "a", "l", "d">>
Bogus == <<"b", "o", "g", "u", "s">>
BuiltinKey == <<"l", "i", "n", "u", "x", "/", "b", "u", "i", "l", "t", "i", "n">>
AuditdKey == <<"l", "i", "n", "u", "x", "/", "a", "u", "d", "i", "t", "d">>
FileEventKey ==
    <<"l", "i", "n", "u", "x", "/", "f", "i", "l", "e", "_", "e", "v", "e", "n", "t">>
CustomRules == <<"/", "c", "u", "s", "t", "o", "m", "/", "r", "u", "l", "e", "s">>
Missing == <<"/", "m", "i", "s", "s", "i", "n", "g">>

\* Every spelling of a word in upper and lower case.
CaseVariants(word) ==
    {[i \in 1..Len(word) |->
         IF upper[i]
         THEN UpperChars[CHOOSE j \in 1..Len(LowerChars) :
                             LowerChars[j] = word[i]]
         ELSE word[i]] : upper \in [1..Len(word) -> BOOLEAN]}

\* Runs of whitespace of at most n characters.
Pads(n) == UNION {[1..k -> {" ", "\t", "\f"}] : k \in 0..n}

Padded(words) ==
    {l \o w \o r : l \in Pads(MaxPad), r \in Pads(MaxPad), w \in words}

\* A configured value as the task framework may hand it over: missing, null,
\* a scalar, or a list whose first element counts.
Shapes(strings) ==
    {Absent, None, List(<<>>), List(<<None>>), List(<<List(<<>>)>>),
     List(<<List(<<Str(Csv)>>)>>), List(<<List(<<Str(Auditd)>>)>>)}
    \cup {Str(s) : s \in strings}
    \cup {List(<<Str(s)>>) : s \in strings}
    \cup {List(<<Str(s), Str(Bogus)>>) : s \in strings}

FormatWords ==
    CaseVariants(Json) \cup CaseVariants(Csv)
    \cup {<<>>, <<"x", "m", "l">>, <<"c", "s", " ", "v">>, <<"j", "s", "o", "n", "l">>}

TargetWords ==
    {Syslog, Auditd, Journald, <<>>, <<"S", "Y", "S", "L", "O", "G">>,
     <<"A", "u", "d", "i", "t", "d">>, <<"s", "y", "s", " ", "l", "o", "g">>}

\* Values of CHOPCHOPGO_DEFAULT_TARGET.
DefaultTargets == {Syslog, Auditd, Journald}

BundleDir(key) == PathJoin(DEFAULT_RULES_ROOT, RULE_BUNDLE_SUBPATHS[key])

\* The directories of the packaged rule bundles.
BundleDirs == {BundleDir(k) : k \in DOMAIN RULE_BUNDLE_SUBPATHS}

\* Another name of the directory CustomRules, and a name that leads to it
\* through a directory that does not exist.
CustomRulesAlias == CustomRules \o <<"/", ".", ".", "/", "r", "u", "l", "e", "s">>
ThroughMissing == Missing \o <<"/", ".", ".">> \o CustomRules

\* The bundle directory of auditd, named from any working directory at most
\* two levels below the root.
AuditdFromBelow ==
    <<".", ".", "/", ".", ".", "/">> \o Tail(BundleDir(AuditdKey))
\* A name longer than a file name may be.
LongName == <<"/">> \o [i \in 1..(NameMax + 1) |-> "r"]

\* Working directories of the worker.
Root == <<"/">>
Custom == <<"/", "c", "u", "s", "t", "o", "m">>
WorkDirs == {Root, Custom}

\* The directory the rules are installed under.
Chopchopgo == <<"/", "o", "p", "t", "/", "c", "h", "o", "p", "c", "h", "o", "p", "g", "o">>

\* What the worker may not search: nothing, as when it runs as root, or one
\* directory above the rules that its owner has closed to others.
NoSearchSets == {{}, {Chopchopgo}, {Custom}}

OverrideValues ==
    {Absent, None, Str(<<>>), Str(CustomRules), Str(CustomRules \o <<"/">>),
     Str(Missing), Str(BundleDir(AuditdKey)), Str(CustomRulesAlias),
     Str(ThroughMissing), List(<<>>), List(<<Str(CustomRules)>>),
     Str(<<"r", "u", "l", "e", "s">>), Str(AuditdFromBelow), Str(LongName),
     Str(Missing \o LongName)}

BundleValues ==
    {Absent, None, Str(<<>>), Str(Bogus), List(<<>>), List(<<Str(BuiltinKey)>>),
     List(<<List(<<Str(BuiltinKey)>>)>>)}
    \cup {Str(k) : k \in DOMAIN RULE_BUNDLE_SUBPATHS}

\* Entries of the list get_input_files returns.
NoPathEntry == [display_name |-> Str(<<"o", "r", "p", "h", "a", "n">>), path |-> Absent]
EmptyPathEntry == [display_name |-> Absent, path |-> Str(<<>>)]
AuthLogEntry ==
    [display_name |-> Absent,
     path |-> Str(<<"/", "v", "a", "r", "/", "l", "o", "g", "/",
                    "a", "u", "t", "h", ".", "l", "o", "g">>)]
NamedEntry ==
    [display_name |-> Str(<<"s", "y", "s", "l", "o", "g", ".", "l", "o", "g">>),
     path |-> Str(<<"/", "d", "a", "t", "a", "/", "i", "n", "/", "f", "1">>)]

\* Entries that hold a list where a text is expected.
ListPathEntry ==
    [display_name |-> Absent, path |-> List(<<Str(<<"/", "p">>)>>)]
ListNameEntry ==
    [display_name |-> List(<<Str(<<"n", ".", "l", "o", "g">>)>>),
     path |-> Str(<<"/", "p">>)]
ListPathNamedEntry ==
    [display_name |-> Str(<<"n", ".", "l", "o", "g">>),
     path |-> List(<<Str(<<"/", "p">>)>>)]

\* An entry whose path holds a null character.
NulPathEntry ==
    [display_name |-> Absent, path |-> Str(<<"/", "p", Nul>>)]

Entries ==
    {NoPathEntry, EmptyPathEntry, AuthLogEntry, NamedEntry, ListPathEntry,
     ListNameEntry, ListPathNamedEntry, NulPathEntry}

FileLists(entries, n) == UNION {[1..k -> entries] : k \in 0..n}

\* The lists get_input_files may return.
AllFileLists == FileLists(Entries, MaxFiles)

\* No file, one entry without a path, one file, or one entry whose path is
\* a list.
ShortFileLists ==
    FileLists({NoPathEntry, AuthLogEntry, ListPathNamedEntry}, 1)

\* What the binary may do: its exit status and what it wrote on standard
\* output and on standard error.
Proc(returncode, stdout, stderr) ==
    [returncode |-> returncode, stdout |-> stdout, stderr |-> stderr]

Hits == <<"[", "]">>
HitsLine == <<"[", "]", "\r", "\n">>
Boom == <<"b", "o", "o", "m">>
MarkerLine == <<"e", "r", "r", ":", " ">> \o TimestampMarker \o <<" ", "@", "1">>

Outcomes ==
    {Proc(0, HitsLine, <<>>), Proc(0, <<>>, MarkerLine),
     Proc(1, <<>>, Boom), Proc(1, <<>>, MarkerLine), Proc(2, MarkerLine, <<>>),
     Proc(1, MarkerLine, Boom), Proc(1, <<>>, <<>>),
     Proc(0, <<"[", InvalidByte>>, <<>>), Proc(1, <<>>, <<InvalidByte>>)}

FewOutcomes ==
    {Proc(0, Hits, <<>>), Proc(1, <<>>, Boom), Proc(1, <<>>, <<InvalidByte>>)}

-----------------------------------------------------------------------------
\* Specifications.

\* The state at the call of analyze_logs with a given environment and
\* configuration.
InitWith(default_target, existing, workdir, no_search, cfg) ==
    /\ DEFAULT_TARGET = default_target
    /\ dirs = existing
    /\ cwd = workdir
    /\ locked = no_search
    /\ task_config = cfg
    /\ files = <<>>
    /\ pc = "start"
    /\ index = 0
    /\ output_format = None
    /\ target = None
    /\ rules_path = None
    /\ command = <<>>
    /\ output_files = <<>>
    /\ created = <<>>
    /\ written = <<>>
    /\ runs = <<>>
    /\ events = <<>>
    /\ error = None
    /\ result = None

\* The whole task over a few configurations, all file lists and outcomes.
Init ==
    \E cfg \in {None} \cup
               {[EmptyConfig EXCEPT !.output_format = f, !.target = t,
                                    !.rules_path = o, !.rule_bundle = b] :
                   f \in {Absent, List(<<Str(Csv)>>)},
                   t \in {Absent, Str(Auditd)},
                   o \in {Absent, List(<<Str(CustomRules)>>)},
                   b \in {Absent, Str(BuiltinKey)}},
       existing \in {BundleDirs, {}} :
        InitWith(Syslog, existing, Root, {}, cfg)

Next ==
    \/ GetInputFiles(AllFileLists)
    \/ ResolveConfig
    \/ SkipEntry
    \/ StartFile
    \/ RunRejectsArgv
    \/ SpawnFails
    \/ DecodeFails(Outcomes)
    \/ ProcessFile(Outcomes)
    \/ Finish

Spec == Init /\ [][Next]_vars

\* The task over short file lists, for the specifications that vary the
\* configuration.
NextResolver ==
    \/ GetInputFiles(ShortFileLists)
    \/ ResolveConfig
    \/ SkipEntry
    \/ StartFile
    \/ RunRejectsArgv
    \/ SpawnFails
    \/ DecodeFails(FewOutcomes)
    \/ ProcessFile(FewOutcomes)
    \/ Finish

\* Every shape and spelling of output_format.
InitFormat ==
    \E cfg \in {None} \cup
               {[EmptyConfig EXCEPT !.output_format = f] :
                   f \in Shapes(Padded(FormatWords))} :
        InitWith(Syslog, BundleDirs, Root, {}, cfg)

SpecFormat == InitFormat /\ [][NextResolver]_vars

\* Every shape and spelling of target, under every default target.
InitTarget ==
    \E cfg \in {None} \cup
               {[EmptyConfig EXCEPT !.target = t] :
                   t \in Shapes(Padded(TargetWords))},
       default_target \in DefaultTargets :
        InitWith(default_target, BundleDirs, Root, {}, cfg)

SpecTarget == InitTarget /\ [][NextResolver]_vars

\* Every rules_path override and rule_bundle, over the file systems that hold
\* some of the directories involved, one of which may be closed to the
\* worker.
InitRules ==
    \E cfg \in {None} \cup
               {[EmptyConfig EXCEPT !.target = t, !.rules_path = o,
                                    !.rule_bundle = b] :
                   t \in {Absent, Str(Auditd), Str(Bogus)},
                   o \in OverrideValues,
                   b \in BundleValues},
       default_target \in {Syslog, Journald},
       existing \in SUBSET {BundleDir(BuiltinKey), BundleDir(AuditdKey),
                            BundleDir(FileEventKey), CustomRules},
       workdir \in WorkDirs,
       no_search \in NoSearchSets :
        /\ \A d \in no_search :
               \E e \in existing \cup {workdir} :
                   IsPrefix(PathParts(d), PathParts(e))
        /\ InitWith(default_target, existing, workdir, no_search, cfg)

SpecRules == InitRules /\ [][NextResolver]_vars

-----------------------------------------------------------------------------
\* Vocabulary of the properties.

\* The configuration has been resolved: the run is past the three resolutions.
Resolved == pc \notin {"start", "resolve"} /\ files # <<>>
Terminal == pc \in {"raised", "returned"}

\* The configured value of a key, before any unwrapping.
Given(key) == IF task_config = None THEN Absent ELSE task_config[key]

\* The first element of a list value, the value itself otherwise; a missing
\* key, null and the empty list all count as no value.
FirstGiven(key) ==
    LET v == Given(key)
    IN IF v.kind = "list"
       THEN IF v.items = <<>> THEN None ELSE v.items[1]
       ELSE IF v.kind = "absent" THEN None ELSE v

\* The text of the first value; the empty text when there is none.
TextGiven(key) ==
    IF FirstGiven(key).kind = "str" THEN FirstGiven(key).s ELSE <<>>

HasPath(entry) == Truthy(DictGet(entry, "path"))

IsParseError == error.kind = "RuntimeError" /\ error.msg = "could_not_parse"
IsExitError == error.kind = "RuntimeError" /\ error.msg = "exited_with_code"
\* subprocess.run raised before the binary ran.
IsSpawnError ==
    error \in {OSError("subprocess_run"), TypeError("subprocess_args"),
               ValueError("embedded_null_byte")}
\* subprocess.run raised after the binary ran: its output is not text.
IsDecodeError == error = UnicodeDecodeError("subprocess_run")
\* write_text raised after a zero exit.
IsWriteError == error = OSError("write_text")
\* An artifact has been allocated for a file for which the binary has not
\* run.
ArtifactPending == pc = "running" \/ IsSpawnError

\* The name leads to a directory of the file system, whether or not the
\* worker may search the directories on the way.
NamesDirectory(s) == StatAs({}, s) = "dir"

\* The name a file is reported under: its display_name, else the last
\* segment of its path.
ReportedName(entry) ==
    IF entry.display_name.kind = "str" /\ entry.display_name.s # <<>>
    THEN entry.display_name.s
    ELSE PathName(entry.path.s)

-----------------------------------------------------------------------------
\* C1 (as stated): a non-zero exit raises the targeted parse error naming the
\* selected target exactly when the captured standard error contains the
\* marker, the generic error with exit code and display name otherwise; a
\* zero exit raises neither.
C1_MarkerInStderr ==
    /\ \A i \in 1..Len(runs) :
          runs[i].returncode # 0 =>
              /\ pc = "raised"
              /\ IF Contains(runs[i].stderr, TimestampMarker)
                 THEN error = CouldNotParse(target.s)
                 ELSE error = ExitedWithCode(runs[i].returncode,
                                             ReportedName(files[runs[i].entry]))
    /\ (IsParseError \/ IsExitError) =>
          \E i \in 1..Len(runs) : runs[i].returncode # 0

\* C1 (amended): when subprocess.run hands back a non-zero exit, the marker
\* is looked for in the error text of the invocation, which is its captured
\* standard error when that is non-empty and its captured standard output
\* otherwise: the targeted error naming the selected target is raised
\* exactly when the error text holds the marker, the generic error with the
\* exit code and the display name otherwise.  When the output of the binary
\* is not UTF-8 text, subprocess.run raises UnicodeDecodeError whatever the
\* exit status, and neither error is raised.  A zero exit raises neither.
C1_MarkerInErrorText ==
    /\ \A i \in 1..Len(runs) :
          (runs[i].returncode # 0 /\ runs[i].decoded) =>
              /\ pc = "raised"
              /\ LET text == IF runs[i].stderr # <<>>
                             THEN runs[i].stderr
                             ELSE runs[i].stdout
                 IN IF Contains(text, TimestampMarker)
                    THEN error = CouldNotParse(target.s)
                    ELSE error = ExitedWithCode(runs[i].returncode,
                                                ReportedName(files[runs[i].entry]))
    /\ \A i \in 1..Len(runs) :
          ~runs[i].decoded =>
              /\ i = Len(runs)
              /\ pc = "raised"
              /\ IsDecodeError
    /\ (IsParseError \/ IsExitError) =>
          /\ Len(runs) > 0
          /\ runs[Len(runs)].returncode # 0
          /\ runs[Len(runs)].decoded

\* The second invocation exited non-zero with nothing on standard error and
\* the marker on standard output, and the targeted error naming auditd was
\* raised.
C1_Witness ==
    /\ pc = "raised"
    /\ IsParseError
    /\ error.target = Auditd
    /\ Len(runs) = 2
    /\ runs[2].returncode # 0
    /\ runs[2].stderr = <<>>
    /\ Contains(runs[2].stdout, TimestampMarker)

-----------------------------------------------------------------------------
\* C2 (as stated): the resolved format is the lower-cased first value when
\* that is json or csv, and json in every other case.
C2_LowerCased ==
    Resolved =>
        /\ output_format.kind = "str"
        /\ output_format.s \in {Json, Csv}
        /\ output_format.s =
               IF Lower(TextGiven("output_format")) \in {Json, Csv}
               THEN Lower(TextGiven("output_format"))
               ELSE Json

\* C2 (amended): the resolved format is the first value with surrounding
\* whitespace removed and lower-cased when that is json or csv, and json in
\* every other case; it is always json or csv.
C2_StrippedLowerCased ==
    Resolved =>
        /\ output_format.kind = "str"
        /\ output_format.s \in {Json, Csv}
        /\ output_format.s =
               IF Lower(Strip(TextGiven("output_format"))) \in {Json, Csv}
               THEN Lower(Strip(TextGiven("output_format")))
               ELSE Json

\* A list-wrapped, upper-case, padded "CSV" has resolved to csv.
C2_Witness ==
    /\ Resolved
    /\ Given("output_format").kind = "list"
    /\ TextGiven("output_format") = <<" ", "C", "S", "V", "\t">>
    /\ output_format = Str(Csv)

-----------------------------------------------------------------------------
\* C3 (as stated): the resolved target is the given value itself when it is
\* a supported target, and the default target in every other case.
C3_GivenValue ==
    Resolved =>
        /\ target.kind = "str"
        /\ target.s =
               IF InSupportedTargets(TextGiven("target"))
               THEN TextGiven("target")
               ELSE DEFAULT_TARGET

\* C3 (amended): the resolved target is the given value with surrounding
\* whitespace removed when that is a supported target, and the default
\* target in every other case.
C3_StrippedValue ==
    Resolved =>
        /\ target.kind = "str"
        /\ target.s =
               IF \E i \in 1..Len(SUPPORTED_TARGETS) :
                      SUPPORTED_TARGETS[i] = Strip(TextGiven("target"))
               THEN Strip(TextGiven("target"))
               ELSE DEFAULT_TARGET

\* A padded " auditd" has resolved to auditd under the default syslog.
C3_Witness ==
    /\ Resolved
    /\ TextGiven("target") = <<" ">> \o Auditd
    /\ DEFAULT_TARGET = Syslog
    /\ target = Str(Auditd)

-----------------------------------------------------------------------------
\* C4: the resolved target, the value after -target of every invocation and
\* the meta.target of the result are members of SUPPORTED_TARGETS, for every
\* configuration and every default target of the environment.
C4_TargetSupported ==
    /\ Resolved => target.kind = "str" /\ InSupportedTargets(target.s)
    /\ \A i \in 1..Len(runs) : InSupportedTargets(runs[i].argv[3])
    /\ result # None => InSupportedTargets(result.meta.target)

-----------------------------------------------------------------------------
\* An explicit rules_path override: a non-empty text.
OverrideGiven ==
    /\ Given("rules_path").kind = "str"
    /\ Given("rules_path").s # <<>>

\* The rule_bundle names a key of the bundle table.
BundleKeyGiven ==
    /\ FirstGiven("rule_bundle").kind = "str"
    /\ FirstGiven("rule_bundle").s \in DOMAIN RULE_BUNDLE_SUBPATHS

\* No override: the key is missing, null, the empty text or the empty list.
NoOverride == ~Truthy(Given("rules_path"))

UnableToLocateRules ==
    /\ pc = "raised"
    /\ error = RuntimeError("unable_to_locate_rules_directory")

\* C5: when an explicit rules_path override is given and names no existing
\* directory, no rules path is resolved, whatever the target and the
\* rule_bundle and whichever bundle directories exist, and analyze_logs
\* fails with the "Unable to locate rules directory" error.
C5_BadOverrideFails ==
    (Resolved /\ OverrideGiven /\ ~NamesDirectory(Given("rules_path").s)) =>
        /\ rules_path = None
        /\ UnableToLocateRules

-----------------------------------------------------------------------------
\* C6: with no explicit override and a rule_bundle that is a key of the
\* bundle table whose directory exists under the rules root, the resolved
\* rules path is that bundle's directory for every target, and the target
\* is the one the configuration resolves to.
C6_BundleOverridesTargetDefault ==
    (/\ Resolved
     /\ NoOverride
     /\ BundleKeyGiven
     /\ NamesDirectory(DEFAULT_RULES_ROOT \o <<"/">> \o
                           FirstGiven("rule_bundle").s)) =>
        /\ rules_path =
               Str(DEFAULT_RULES_ROOT \o <<"/">> \o
                   RULE_BUNDLE_SUBPATHS[FirstGiven("rule_bundle").s])
        /\ target.s = IF InSupportedTargets(Strip(TextGiven("target")))
                      THEN Strip(TextGiven("target"))
                      ELSE DEFAULT_TARGET
        /\ ~UnableToLocateRules

-----------------------------------------------------------------------------
\* C7: when get_input_files returns no file, or no rules directory can be
\* resolved, analyze_logs fails with a runtime error (RuntimeError), and in
\* that run the binary is never invoked, no artifact is allocated or
\* written and no progress event is sent.
C7_PreconditionErrorsRunNothing ==
    /\ (pc # "start" /\ files = <<>>) =>
           /\ pc = "raised"
           /\ error = RuntimeError("no_compatible_input_files")
    /\ (Resolved /\ ~Truthy(rules_path)) =>
           UnableToLocateRules
    /\ (\/ pc # "start" /\ files = <<>>
        \/ Resolved /\ ~Truthy(rules_path)) =>
           /\ runs = <<>>
           /\ created = <<>>
           /\ written = <<>>
           /\ events = <<>>
           /\ result = None

-----------------------------------------------------------------------------
\* C8: the invocations of a run follow the order of the input list, each
\* entry is invoked at most once, and the first non-zero exit is the last
\* invocation: the task has failed and returns no TaskResult.
C8_SequentialAbortOnFailure ==
    /\ \A i \in 1..Len(runs) :
          /\ runs[i].entry \in 1..Len(files)
          /\ runs[i].argv[7] = files[runs[i].entry].path.s
    /\ \A i, j \in 1..Len(runs) : i < j => runs[i].entry < runs[j].entry
    /\ pc = "running" => \A i \in 1..Len(runs) : runs[i].entry < index
    /\ \A i \in 1..Len(runs) :
          runs[i].returncode # 0 =>
              /\ i = Len(runs)
              /\ pc = "raised"
              /\ result = None

\* The first of two files with a path failed and the second was never
\* invoked.
C8_Witness ==
    /\ pc = "raised"
    /\ Len(files) = 2
    /\ HasPath(files[1]) /\ HasPath(files[2])
    /\ Len(runs) = 1
    /\ runs[1].returncode # 0

-----------------------------------------------------------------------------
\* The positions below n of the input entries that have a path, in order.
PathEntriesBelow(n) ==
    SelectSeq([i \in 1..(n - 1) |-> i], LAMBDA i : HasPath(files[i]))

\* C9: an entry with no path causes no invocation and no artifact and does
\* not stop the loop: the entries after it are processed; when the task
\* returns, output_files holds one descriptor for each entry that has a
\* path, in input order.
C9_SkipEntriesWithoutPath ==
    /\ \A i \in 1..Len(runs) : HasPath(files[runs[i].entry])
    /\ Len(created) = Len(runs) + (IF ArtifactPending THEN 1 ELSE 0)
    /\ ArtifactPending => HasPath(files[index])
    /\ pc = "loop" =>
           [i \in 1..Len(runs) |-> runs[i].entry] = PathEntriesBelow(index)
    /\ pc = "returned" =>
           LET with_path == PathEntriesBelow(Len(files) + 1)
           IN /\ Len(result.output_files) = Len(with_path)
              /\ result.output_files = created
              /\ \A k \in 1..Len(with_path) :
                    /\ runs[k].entry = with_path[k]
                    /\ result.output_files[k].display_name =
                           PathStem(ReportedName(files[with_path[k]]))
                               \o OutputSuffix

\* An entry without a path came first, the entry after it was processed and
\* the task returned one descriptor.
C9_Witness ==
    /\ pc = "returned"
    /\ files = <<NoPathEntry, AuthLogEntry>>
    /\ Len(result.output_files) = 1
    /\ runs[1].entry = 2

-----------------------------------------------------------------------------
\* C10 (as stated): a TaskResult is returned only with a non-empty
\* output_files list; whenever the task ends with no artifact produced
\* although input files were returned, it has failed with the "did not
\* produce any outputs" error.
C10_NonEmptyResult ==
    /\ result # None => pc = "returned" /\ Len(result.output_files) > 0
    /\ pc = "returned" => result # None
    /\ (Terminal /\ files # <<>> /\ output_files = <<>>) =>
           /\ pc = "raised"
           /\ error = RuntimeError("did_not_produce_any_outputs")
           /\ result = None

\* C10 (amended): a TaskResult is returned only with a non-empty
\* output_files list; the task fails with the "did not produce any outputs"
\* error exactly when input files were returned, a rules directory was
\* resolved and every entry lacks a path, so that the loop ends with no
\* invocation made and no artifact produced.  A run that ends earlier with
\* no artifact produced fails with the error that ended it.
C10_NonEmptyAfterLoop ==
    /\ result # None => pc = "returned" /\ Len(result.output_files) > 0
    /\ pc = "returned" => result # None
    /\ (Terminal /\ index > Len(files) /\ output_files = <<>>) =>
           /\ pc = "raised"
           /\ error = RuntimeError("did_not_produce_any_outputs")
           /\ result = None
    /\ (/\ Terminal
        /\ files # <<>>
        /\ Truthy(rules_path)
        /\ \A i \in 1..Len(files) : ~HasPath(files[i])) =>
           error = RuntimeError("did_not_produce_any_outputs")
    /\ error = RuntimeError("did_not_produce_any_outputs") =>
           /\ pc = "raised"
           /\ files # <<>>
           /\ Truthy(rules_path)
           /\ \A i \in 1..Len(files) : ~HasPath(files[i])
           /\ runs = <<>>
           /\ created = <<>>
    /\ (Terminal /\ output_files = <<>> /\ index <= Len(files)) =>
           /\ pc = "raised"
           /\ \/ ~Resolved
              \/ error.kind \in {"TypeError", "OSError", "PermissionError"}
                 /\ index = 0
              \/ UnableToLocateRules
              \/ error = TypeError("path_argument")
              \/ IsSpawnError
              \/ IsDecodeError
              \/ IsParseError
              \/ IsExitError
              \/ IsWriteError

\* Two entries, neither with a path: the task failed with the "did not
\* produce any outputs" error.
C10_Witness ==
    /\ pc = "raised"
    /\ error = RuntimeError("did_not_produce_any_outputs")
    /\ Len(files) = 2
    /\ \A i \in 1..Len(files) : ~HasPath(files[i])

-----------------------------------------------------------------------------
\* The argument vector the binary is to be run with for one input entry,
\* given the values resolved for the run.
ExpectedArgv(entry) ==
    <<BINARY_PATH,
      <<"-", "t", "a", "r", "g", "e", "t">>, target.s,
      <<"-", "r", "u", "l", "e", "s">>, rules_path.s,
      <<"-", "f", "i", "l", "e">>, entry.path.s,
      <<"-", "o", "u", "t">>, output_format.s>>

\* Every invocation was made with the resolved values of the run, and a
\* returned result reports those values as its meta.
ArgvAndMetaAgree ==
    /\ \A i \in 1..Len(runs) : runs[i].argv = ExpectedArgv(files[runs[i].entry])
    /\ (pc = "running" /\ ArgvIsText) => command = ExpectedArgv(files[index])
    /\ result # None =>
           /\ Len(runs) > 0
           /\ \A i \in 1..Len(runs) :
                 /\ runs[i].argv[3] = result.meta.target
                 /\ runs[i].argv[5] = result.meta.rules_path
                 /\ runs[i].argv[9] = result.meta.output_format

\* C11 (as stated): every invocation has the argument vector [binary,
\* -target, target, -rules, rules_path, -file, file_path, -out,
\* output_format] with the same resolved values for all files, equal to the
\* meta of the returned result, and the result's command is the argument
\* vector of the last invocation.
C11_CommandIsArgv ==
    /\ ArgvAndMetaAgree
    /\ result # None => result.command = runs[Len(runs)].argv

\* C11 (amended): the same, with the result's command being the text made
\* of the words of the last invocation's argument vector joined by single
\* spaces.
C11_CommandIsJoinedArgv ==
    /\ ArgvAndMetaAgree
    /\ result # None => result.command = JoinSpace(runs[Len(runs)].argv)

\* Two files were run for target auditd with csv output, an entry without a
\* path came last, and the result reports the second file's command.
C11_Witness ==
    /\ pc = "returned"
    /\ files = <<AuthLogEntry, NamedEntry, NoPathEntry>>
    /\ Len(runs) = 2
    /\ result.meta.target = Auditd
    /\ result.meta.output_format = Csv
    /\ result.command = JoinSpace(ExpectedArgv(NamedEntry))

-----------------------------------------------------------------------------
\* The invocations that exited zero.
ZeroExits == {i \in 1..Len(runs) : runs[i].returncode = 0}

\* The write_text calls made on the k-th allocated artifact.
WritesOf(k) == {j \in 1..Len(written) : written[j].id = created[k].id}

\* The k-th artifact was allocated for the k-th invocation; it has been
\* written exactly once, with that invocation's standard output, and that
\* invocation exited zero.
WrittenOnceVerbatim(k) ==
    /\ k <= Len(runs)
    /\ runs[k].returncode = 0
    /\ Cardinality(WritesOf(k)) = 1
    /\ \A j \in WritesOf(k) : written[j].data = runs[k].stdout

\* C12: in every terminal state the number of artifacts allocated equals
\* the number of input files whose invocation exited zero,
\* and each allocated artifact has been written exactly once, after its own
\* invocation succeeded, with that invocation's standard output verbatim.
C12_OneArtifactPerSuccess ==
    Terminal =>
        /\ Len(created) = Cardinality(ZeroExits)
        /\ \A k \in 1..Len(created) : WrittenOnceVerbatim(k)

====
